---- MODULE Spec2Model ----
(***************************************************************************)
(* Model of the request-body transcoding proxy (src/src/main.rs) and its   *)
(* four stream codecs (src/src/compress.rs).                               *)
(*                                                                         *)
(* The codec libraries (flate2's write::GzEncoder / write::GzDecoder and   *)
(* zstd's stream::write::Encoder / Decoder) are modelled at the level the  *)
(* wrappers in compress.rs observe them:                                   *)
(*   - a wire byte is a number: 0 and 1 are the body bytes, GzHeader and   *)
(*     ZstdMagic are the format prefixes, BlockHdr(n, final) opens a block *)
(*     of n literal bytes (the stored-block form of both formats), and     *)
(*     Trailer(crc, amt) is the gzip CRC/ISIZE footer;                     *)
(*   - the compression algorithm may hold input back (field pend) and      *)
(*     emits a block only when it chooses to (parameter emit) or when it   *)
(*     is finished;                                                        *)
(*   - both libraries put what a write produced into an intermediate       *)
(*     buffer (field buf) that reaches the Vec<u8> (field vec) only on the *)
(*     next write, flush or finish.                                        *)
(***************************************************************************)
EXTENDS Integers, Sequences, FiniteSets, TLC

\* ------------------------------------------------------------------ bounds

\* Longest request body, in bytes.
MaxLen == 3
\* Most encode calls made on one codec.
MaxCalls == 3
\* Most upstream attempts (upstream_request_filter calls) for one request.
MaxAttempts == 2
\* Most request_body_filter calls for one of several requests in flight.
MultiCalls == 2

\* The body byte values.
Byte == {0, 1}

RECURSIVE SeqsUpTo(_, _)
SeqsUpTo(S, n) ==
    IF n = 0 THEN {<<>>}
    ELSE LET shorter == SeqsUpTo(S, n - 1)
         IN shorter \cup {Append(s, x) : s \in {t \in shorter : Len(t) = n - 1}, x \in S}

Bodies == SeqsUpTo(Byte, MaxLen)

RECURSIVE Concat(_)
Concat(ss) == IF ss = <<>> THEN <<>> ELSE Head(ss) \o Concat(Tail(ss))

Drop(s, n) == SubSeq(s, n + 1, Len(s))
Take(s, n) == SubSeq(s, 1, n)
Min(a, b) == IF a < b THEN a ELSE b

\* ------------------------------------------------------- the wire formats

\* gzip: ID1, ID2, CM (the prefix the test gzip_data asserts).
GzHeader == <<31, 139, 8>>
\* zstd: the frame magic number 0xFD2FB528, little endian.
ZstdMagic == <<40, 181, 47, 253>>

BlockHdr(n, final) == 100 + 2 * n + (IF final THEN 1 ELSE 0)
IsBlockHdr(x) == x >= 100 /\ x < 200
BlockLen(x) == (x - 100) \div 2
BlockFinal(x) == (x - 100) % 2 = 1
Block(data, final) == <<BlockHdr(Len(data), final)>> \o data

\* The running CRC of flate2's Crc, and the gzip footer (CRC32, ISIZE).
RECURSIVE CrcUpdate(_, _)
CrcUpdate(crc, data) ==
    IF data = <<>> THEN crc
    ELSE CrcUpdate((crc * 3 + Head(data) + 1) % 7, Tail(data))

Trailer(crc, amt) == <<200 + crc, 220 + (amt % 8)>>
CRC_BYTES_LEN == Len(Trailer(0, 0))

\* zio::Writer::dump / write_from_offset: the intermediate buffer goes to
\* the inner Vec<u8>.
ZioDump(w) == [w EXCEPT !.vec = @ \o w.buf, !.buf = <<>>]

\* ------------------------------------------------- flate2 write::GzEncoder

GzEncoderNew ==
    [header |-> GzHeader, pend |-> <<>>, dfin |-> FALSE, buf |-> <<>>,
     vec |-> <<>>, crc |-> 0, amt |-> 0, crc_bytes_written |-> 0]

GzEncWriteHeader(e) == [e EXCEPT !.vec = @ \o e.header, !.header = <<>>]

\* Compress::run_vec with Flush::None: the input is taken in, a block comes
\* out only when the algorithm decides to emit one.
DeflateRun(e, input, emit) ==
    LET all == e.pend \o input
    IN IF emit THEN [e EXCEPT !.pend = <<>>, !.buf = @ \o Block(all, FALSE)]
       ELSE [e EXCEPT !.pend = all]

\* Mutant: an empty input still makes one write call.
Mut_GzEncWriteAll_WriteEmpty(e, input, emit) ==
    IF e.crc_bytes_written # 0 THEN [e |-> e, res |-> "panic"]
    ELSE LET r == DeflateRun(ZioDump(GzEncWriteHeader(e)), input, emit)
         IN [e |-> [r EXCEPT !.crc = CrcUpdate(@, input), !.amt = @ + Len(input)],
             res |-> "ok"]

\* write_all(input): no write call for an empty input; write asserts that
\* the footer has not been written.
GzEncWriteAll(e, input, emit) ==
    IF input = <<>> THEN [e |-> e, res |-> "ok"]
    ELSE IF e.crc_bytes_written # 0 THEN [e |-> e, res |-> "panic"]
    ELSE LET r == DeflateRun(ZioDump(GzEncWriteHeader(e)), input, emit)
         IN [e |-> [r EXCEPT !.crc = CrcUpdate(@, input), !.amt = @ + Len(input)],
             res |-> "ok"]

\* try_finish: header, zio finish (dump, final block, dump), footer.
GzEncTryFinish(e) ==
    LET Footer(f) ==
            IF f.crc_bytes_written < CRC_BYTES_LEN
            THEN [f EXCEPT !.vec = @ \o Trailer(f.crc, f.amt),
                           !.crc_bytes_written = CRC_BYTES_LEN]
            ELSE f
        Finish(h) ==
            IF h.dfin THEN h
            ELSE [h EXCEPT !.vec = @ \o Block(h.pend, TRUE), !.pend = <<>>,
                           !.dfin = TRUE]
    IN Footer(Finish(ZioDump(GzEncWriteHeader(e))))

\* ------------------------------------------------- flate2 write::GzDecoder

GzDecoderNew ==
    [hdr |-> 0, rem |-> 0, last |-> FALSE, done |-> FALSE, buf |-> <<>>,
     vec |-> <<>>, crc |-> 0, amt |-> 0, crc_bytes |-> <<>>]

\* dump into the CrcWriter around the Vec<u8>.
GzDecDump(d) ==
    [d EXCEPT !.vec = @ \o d.buf, !.crc = CrcUpdate(@, d.buf),
              !.amt = @ + Len(d.buf), !.buf = <<>>]

\* GzHeaderParser::parse: n bytes of the header matched so far.
RECURSIVE GzParseHeader(_, _, _)
GzParseHeader(d, bytes, n) ==
    IF d.hdr = Len(GzHeader) \/ bytes = <<>> THEN [d |-> d, n |-> n, err |-> FALSE]
    ELSE IF Head(bytes) = GzHeader[d.hdr + 1]
         THEN GzParseHeader([d EXCEPT !.hdr = @ + 1], Tail(bytes), n + 1)
         ELSE [d |-> d, n |-> n, err |-> TRUE]

\* Decompress::run_vec: block headers and literals, up to the final block.
RECURSIVE Inflate(_, _, _)
Inflate(d, bytes, n) ==
    IF d.done \/ bytes = <<>> THEN [d |-> d, n |-> n, err |-> FALSE]
    ELSE LET x == Head(bytes)
         IN IF d.rem > 0
            THEN Inflate([d EXCEPT !.buf = Append(@, x), !.rem = @ - 1,
                                   !.done = (d.rem = 1 /\ d.last)],
                         Tail(bytes), n + 1)
            ELSE IF IsBlockHdr(x)
            THEN Inflate([d EXCEPT !.rem = BlockLen(x), !.last = BlockFinal(x),
                                   !.done = (BlockLen(x) = 0 /\ BlockFinal(x))],
                         Tail(bytes), n + 1)
            ELSE [d |-> d, n |-> n, err |-> TRUE]

\* One call of GzDecoder::write.
GzDecWrite(d, bytes) ==
    LET Footer(r, k) ==
            IF r.err THEN r
            ELSE IF r.d.done /\ r.n < Len(bytes) /\ Len(r.d.crc_bytes) < CRC_BYTES_LEN
            THEN [d |-> [r.d EXCEPT !.crc_bytes = @ \o SubSeq(bytes, r.n + 1, r.n + k)],
                  n |-> r.n + k, err |-> FALSE]
            ELSE r
        Inflated(r) ==
            Footer(r, Min(Len(bytes) - r.n, CRC_BYTES_LEN - Len(r.d.crc_bytes)))
    IN IF d.hdr < Len(GzHeader) THEN GzParseHeader(d, bytes, 0)
       ELSE Inflated(Inflate(GzDecDump(d), bytes, 0))

\* write_all: write until the input is used up; Ok(0) is ErrorKind::WriteZero.
RECURSIVE GzDecWriteAll(_, _)
GzDecWriteAll(d, bytes) ==
    LET Written(w) ==
            IF w.err \/ w.n = 0 THEN [d |-> w.d, err |-> TRUE]
            ELSE GzDecWriteAll(w.d, Drop(bytes, w.n))
    IN IF bytes = <<>> THEN [d |-> d, err |-> FALSE]
       ELSE Written(GzDecWrite(d, bytes))

\* try_finish = finish_and_check_crc.
GzDecTryFinish(d) ==
    LET Check(f) ==
            [d |-> f,
             err |-> \/ Len(f.crc_bytes) # CRC_BYTES_LEN
                     \/ f.crc_bytes # Trailer(f.crc, f.amt)]
    IN Check(GzDecDump(d))

\* -------------------------------------------- zstd stream::write::Encoder

ZstdEncoderNew ==
    [started |-> FALSE, pend |-> <<>>, buf |-> <<>>, vec |-> <<>>, finished |-> FALSE]

ZstdFramePrefix(e) == IF e.started THEN <<>> ELSE ZstdMagic

\* write_all(input) on zio::Writer<Vec<u8>, raw::Encoder>.
ZstdEncWriteAll(e, input, emit) ==
    IF input = <<>> THEN [e |-> e, res |-> "ok"]
    ELSE IF e.finished THEN [e |-> e, res |-> "panic"]
    ELSE LET Run(d) ==
                 IF emit
                 THEN [d EXCEPT !.pend = <<>>, !.started = TRUE,
                                !.buf = ZstdFramePrefix(d) \o Block(d.pend \o input, FALSE)]
                 ELSE [d EXCEPT !.pend = @ \o input]
         IN [e |-> Run(ZioDump(e)), res |-> "ok"]

\* do_finish = zio::Writer::finish.
ZstdEncFinish(e) ==
    LET End(d) ==
            IF d.finished THEN d
            ELSE [d EXCEPT !.vec = @ \o ZstdFramePrefix(d) \o Block(d.pend, TRUE),
                           !.pend = <<>>, !.started = TRUE, !.finished = TRUE]
    IN End(ZioDump(e))

\* -------------------------------------------- zstd stream::write::Decoder

ZstdDecoderNew ==
    [magic |-> 0, inblock |-> FALSE, rem |-> 0, last |-> FALSE, blk |-> <<>>,
     buf |-> <<>>, vec |-> <<>>, finished_frame |-> FALSE]

\* raw::Decoder::run on one write call: stops at the end of a frame.  A block
\* is decoded when all of it has arrived.
RECURSIVE ZstdDecRun(_, _, _)
ZstdDecRun(d, bytes, n) ==
    IF d.finished_frame \/ bytes = <<>> THEN [d |-> d, n |-> n, err |-> FALSE]
    ELSE LET x == Head(bytes)
         IN IF d.magic < Len(ZstdMagic)
            THEN IF x = ZstdMagic[d.magic + 1]
                 THEN ZstdDecRun([d EXCEPT !.magic = @ + 1], Tail(bytes), n + 1)
                 ELSE [d |-> d, n |-> n, err |-> TRUE]
            ELSE IF d.inblock
            THEN LET got == Append(d.blk, x)
                 IN IF d.rem = 1
                    THEN ZstdDecRun([d EXCEPT !.buf = @ \o got, !.blk = <<>>, !.rem = 0,
                                             !.inblock = FALSE,
                                             !.finished_frame = d.last],
                                    Tail(bytes), n + 1)
                    ELSE ZstdDecRun([d EXCEPT !.blk = got, !.rem = @ - 1],
                                    Tail(bytes), n + 1)
            ELSE IF IsBlockHdr(x)
            THEN ZstdDecRun([d EXCEPT !.rem = BlockLen(x), !.last = BlockFinal(x),
                                     !.inblock = (BlockLen(x) > 0),
                                     !.finished_frame = (BlockLen(x) = 0 /\ BlockFinal(x))],
                            Tail(bytes), n + 1)
            ELSE [d |-> d, n |-> n, err |-> TRUE]

\* zio::Writer::write: pending output out, a finished frame re-initialised.
ZstdDecReinit(d) ==
    IF d.finished_frame
    THEN [d EXCEPT !.finished_frame = FALSE, !.magic = 0, !.last = FALSE]
    ELSE d

RECURSIVE ZstdDecWriteAll(_, _)
ZstdDecWriteAll(d, bytes) ==
    LET Written(w) ==
            IF w.err THEN [d |-> w.d, err |-> TRUE]
            ELSE ZstdDecWriteAll(w.d, Drop(bytes, w.n))
    IN IF bytes = <<>> THEN [d |-> d, err |-> FALSE]
       ELSE Written(ZstdDecRun(ZstdDecReinit(ZioDump(d)), bytes, 0))

\* zio::Writer::flush: everything decoded so far goes to the Vec<u8>; an
\* incomplete frame is not an error here (only finish reports it).
ZstdDecFlush(d) == ZioDump(d)

\* ------------------------------------------------ compress.rs: the codecs

\* An encode call returns [c |-> the codec afterwards, out |-> the Bytes
\* returned, res |-> "ok", "err" (Err(COMPRESSION_ERROR)) or "panic"].

CompressorNew == [compress |-> GzEncoderNew, total_in |-> 0, total_out |-> 0]

\* Mutant: total_out is read from the Vec after it has been taken.
Mut_CompressorEncode_CountAfterTake(c, input, end, emit) ==
    LET tin == c.total_in + Len(input)
        Taken(f) ==
            [c |-> [compress |-> [f EXCEPT !.vec = <<>>], total_in |-> tin,
                    total_out |-> c.total_out],
             out |-> f.vec, res |-> "ok"]
        Written(w) ==
            IF w.res = "panic"
            THEN [c |-> [c EXCEPT !.total_in = tin], out |-> <<>>, res |-> "panic"]
            ELSE Taken(IF end THEN GzEncTryFinish(w.e) ELSE w.e)
    IN Written(GzEncWriteAll(c.compress, input, emit))

CompressorEncode(c, input, end, emit) ==
    LET tin == c.total_in + Len(input)
        Taken(f) ==
            [c |-> [compress |-> [f EXCEPT !.vec = <<>>], total_in |-> tin,
                    total_out |-> c.total_out + Len(f.vec)],
             out |-> f.vec, res |-> "ok"]
        Written(w) ==
            IF w.res = "panic"
            THEN [c |-> [c EXCEPT !.total_in = tin], out |-> <<>>, res |-> "panic"]
            ELSE Taken(IF end THEN GzEncTryFinish(w.e) ELSE w.e)
    IN Written(GzEncWriteAll(c.compress, input, emit))

DecompressorNew == [decompress |-> GzDecoderNew, total_in |-> 0, total_out |-> 0]

\* Mutant: try_finish is not called on the final chunk.
Mut_DecompressorEncode_NoFinish(c, input, end) ==
    LET tin == c.total_in + Len(input)
        Failed(d) ==
            [c |-> [c EXCEPT !.total_in = tin, !.decompress = d],
             out |-> <<>>, res |-> "err"]
        Taken(f) ==
            [c |-> [decompress |-> [f EXCEPT !.vec = <<>>], total_in |-> tin,
                    total_out |-> c.total_out + Len(f.vec)],
             out |-> f.vec, res |-> "ok"]
        Written(w) == IF w.err THEN Failed(w.d) ELSE Taken(w.d)
    IN Written(GzDecWriteAll(c.decompress, input))

DecompressorEncode(c, input, end) ==
    LET tin == c.total_in + Len(input)
        Failed(d) ==
            [c |-> [c EXCEPT !.total_in = tin, !.decompress = d],
             out |-> <<>>, res |-> "err"]
        Taken(f) ==
            [c |-> [decompress |-> [f EXCEPT !.vec = <<>>], total_in |-> tin,
                    total_out |-> c.total_out + Len(f.vec)],
             out |-> f.vec, res |-> "ok"]
        Finished(t) == IF t.err THEN Failed(t.d) ELSE Taken(t.d)
        Written(w) ==
            IF w.err THEN Failed(w.d)
            ELSE IF end THEN Finished(GzDecTryFinish(w.d))
            ELSE Taken(w.d)
    IN Written(GzDecWriteAll(c.decompress, input))

ZstdCompressorNew == [compress |-> ZstdEncoderNew, total_in |-> 0, total_out |-> 0]

\* Mutant: the frame is finished only by a final chunk that carries bytes.
Mut_ZstdCompressorEncode_FinishOnData(c, input, end, emit) ==
    LET tin == c.total_in + Len(input)
        Taken(f) ==
            [c |-> [compress |-> [f EXCEPT !.vec = <<>>], total_in |-> tin,
                    total_out |-> c.total_out + Len(f.vec)],
             out |-> f.vec, res |-> "ok"]
        Written(w) ==
            IF w.res = "panic"
            THEN [c |-> [c EXCEPT !.total_in = tin], out |-> <<>>, res |-> "panic"]
            ELSE Taken(IF end /\ input # <<>> THEN ZstdEncFinish(w.e) ELSE w.e)
    IN Written(ZstdEncWriteAll(c.compress, input, emit))

\* Mutant: the Vec is copied out, not taken.
Mut_ZstdCompressorEncode_NoTake(c, input, end, emit) ==
    LET tin == c.total_in + Len(input)
        Taken(f) ==
            [c |-> [compress |-> f, total_in |-> tin,
                    total_out |-> c.total_out + Len(f.vec)],
             out |-> f.vec, res |-> "ok"]
        Written(w) ==
            IF w.res = "panic"
            THEN [c |-> [c EXCEPT !.total_in = tin], out |-> <<>>, res |-> "panic"]
            ELSE Taken(IF end THEN ZstdEncFinish(w.e) ELSE w.e)
    IN Written(ZstdEncWriteAll(c.compress, input, emit))

ZstdCompressorEncode(c, input, end, emit) ==
    LET tin == c.total_in + Len(input)
        Taken(f) ==
            [c |-> [compress |-> [f EXCEPT !.vec = <<>>], total_in |-> tin,
                    total_out |-> c.total_out + Len(f.vec)],
             out |-> f.vec, res |-> "ok"]
        Written(w) ==
            IF w.res = "panic"
            THEN [c |-> [c EXCEPT !.total_in = tin], out |-> <<>>, res |-> "panic"]
            ELSE Taken(IF end THEN ZstdEncFinish(w.e) ELSE w.e)
    IN Written(ZstdEncWriteAll(c.compress, input, emit))

ZstdDecompressorNew == [decompress |-> ZstdDecoderNew, total_in |-> 0, total_out |-> 0]

\* Mutant: flush is not called on the final chunk.
Mut_ZstdDecompressorEncode_NoFlush(c, input, end) ==
    LET tin == c.total_in + Len(input)
        Taken(f) ==
            [c |-> [decompress |-> [f EXCEPT !.vec = <<>>], total_in |-> tin,
                    total_out |-> c.total_out + Len(f.vec)],
             out |-> f.vec, res |-> "ok"]
        Written(w) ==
            IF w.err
            THEN [c |-> [c EXCEPT !.total_in = tin, !.decompress = w.d],
                  out |-> <<>>, res |-> "err"]
            ELSE Taken(w.d)
    IN Written(ZstdDecWriteAll(c.decompress, input))

ZstdDecompressorEncode(c, input, end) ==
    LET tin == c.total_in + Len(input)
        Taken(f) ==
            [c |-> [decompress |-> [f EXCEPT !.vec = <<>>], total_in |-> tin,
                    total_out |-> c.total_out + Len(f.vec)],
             out |-> f.vec, res |-> "ok"]
        Written(w) ==
            IF w.err
            THEN [c |-> [c EXCEPT !.total_in = tin, !.decompress = w.d],
                  out |-> <<>>, res |-> "err"]
            ELSE Taken(IF end THEN ZstdDecFlush(w.d) ELSE w.d)
    IN Written(ZstdDecWriteAll(c.decompress, input))

\* stat(): the name, total_in and total_out (the duration is not modelled).
CompressorStat(c) == <<"gzip", c.total_in, c.total_out>>
DecompressorStat(c) == <<"de-gzip", c.total_in, c.total_out>>
ZstdCompressorStat(c) == <<"zstd", c.total_in, c.total_out>>
ZstdDecompressorStat(c) == <<"de-zstd", c.total_in, c.total_out>>

\* ------------------------------------------- main.rs: the variant wrappers

\* Option<Compreessor0> / Option<Decompreessor0>: tag "None", "Gzip", "Zstd".
NoCodec == [tag |-> "None"]
IsSome(o) == o.tag # "None"

Compreessor0Encode(o, input, end, emit) ==
    [(IF o.tag = "Gzip" THEN CompressorEncode(o.c, input, end, emit)
      ELSE ZstdCompressorEncode(o.c, input, end, emit))
     EXCEPT !.c = [tag |-> o.tag, c |-> @]]

Decompreessor0Encode(o, input, end) ==
    [(IF o.tag = "Gzip" THEN DecompressorEncode(o.c, input, end)
      ELSE ZstdDecompressorEncode(o.c, input, end))
     EXCEPT !.c = [tag |-> o.tag, c |-> @]]

NewCompressor(zstd) ==
    IF zstd THEN [tag |-> "Zstd", c |-> ZstdCompressorNew]
    ELSE [tag |-> "Gzip", c |-> CompressorNew]

NewDecompressor(zstd) ==
    IF zstd THEN [tag |-> "Zstd", c |-> ZstdDecompressorNew]
    ELSE [tag |-> "Gzip", c |-> DecompressorNew]

\* ----------------------------------------------------- main.rs: the proxy

\* A header map holds the headers that are present: name -> value.
CONTENT_ENCODING == "content-encoding"
CONTENT_LENGTH == "content-length"
TRANSFER_ENCODING == "transfer-encoding"
ACCEPT_ENCODING == "accept-encoding"
CRD_CONTENT_LENGTH == "crd-content-length"

HasHeader(h, n) == n \in DOMAIN h
InsertHeader(h, n, v) == [x \in DOMAIN h \cup {n} |-> IF x = n THEN v ELSE h[x]]
RemoveHeader(h, n) == [x \in DOMAIN h \ {n} |-> h[x]]

\* Option<Bytes>
NoBody == [some |-> FALSE, data |-> <<>>]
SomeBody(data) == [some |-> TRUE, data |-> data]

new_ctx == [op |-> "None", compressor |-> NoCodec, decompressor |-> NoCodec]

\* Mutant: content-length is copied to the side channel, not moved.
Mut_upstream_request_filter_KeepLength(zstd, upstream_request, ctx) ==
    IF ~HasHeader(upstream_request, CONTENT_ENCODING)
    THEN LET moved == IF HasHeader(upstream_request, CONTENT_LENGTH)
                      THEN InsertHeader(upstream_request, CRD_CONTENT_LENGTH,
                                        upstream_request[CONTENT_LENGTH])
                      ELSE upstream_request
             marked == InsertHeader(moved, CONTENT_ENCODING,
                                    IF zstd THEN "zstd" ELSE "gzip")
         IN [req |-> InsertHeader(marked, TRANSFER_ENCODING, "Chunked"),
             ctx |-> [ctx EXCEPT !.op = "Compress",
                                 !.compressor = NewCompressor(zstd)]]
    ELSE LET accept == InsertHeader(upstream_request, ACCEPT_ENCODING,
                                    IF zstd THEN "zstd" ELSE "gzip")
         IN [req |-> IF HasHeader(accept, CRD_CONTENT_LENGTH)
                     THEN RemoveHeader(InsertHeader(accept, CONTENT_LENGTH,
                                                    accept[CRD_CONTENT_LENGTH]),
                                       TRANSFER_ENCODING)
                     ELSE accept,
             ctx |-> [ctx EXCEPT !.op = "Decompress",
                                 !.decompressor = NewDecompressor(zstd)]]

\* Mutant: the restored content-length leaves transfer-encoding in place.
Mut_upstream_request_filter_KeepChunked(zstd, upstream_request, ctx) ==
    IF ~HasHeader(upstream_request, CONTENT_ENCODING)
    THEN LET moved == IF HasHeader(upstream_request, CONTENT_LENGTH)
                      THEN InsertHeader(RemoveHeader(upstream_request, CONTENT_LENGTH),
                                        CRD_CONTENT_LENGTH,
                                        upstream_request[CONTENT_LENGTH])
                      ELSE upstream_request
             marked == InsertHeader(moved, CONTENT_ENCODING,
                                    IF zstd THEN "zstd" ELSE "gzip")
         IN [req |-> InsertHeader(marked, TRANSFER_ENCODING, "Chunked"),
             ctx |-> [ctx EXCEPT !.op = "Compress",
                                 !.compressor = NewCompressor(zstd)]]
    ELSE LET accept == InsertHeader(upstream_request, ACCEPT_ENCODING,
                                    IF zstd THEN "zstd" ELSE "gzip")
         IN [req |-> IF HasHeader(accept, CRD_CONTENT_LENGTH)
                     THEN InsertHeader(accept, CONTENT_LENGTH, accept[CRD_CONTENT_LENGTH])
                     ELSE accept,
             ctx |-> [ctx EXCEPT !.op = "Decompress",
                                 !.decompressor = NewDecompressor(zstd)]]

\* Mutant: the decompressing branch also installs a compressor.
Mut_upstream_request_filter_BothCodecs(zstd, upstream_request, ctx) ==
    IF ~HasHeader(upstream_request, CONTENT_ENCODING)
    THEN LET moved == IF HasHeader(upstream_request, CONTENT_LENGTH)
                      THEN InsertHeader(RemoveHeader(upstream_request, CONTENT_LENGTH),
                                        CRD_CONTENT_LENGTH,
                                        upstream_request[CONTENT_LENGTH])
                      ELSE upstream_request
             marked == InsertHeader(moved, CONTENT_ENCODING,
                                    IF zstd THEN "zstd" ELSE "gzip")
         IN [req |-> InsertHeader(marked, TRANSFER_ENCODING, "Chunked"),
             ctx |-> [ctx EXCEPT !.op = "Compress",
                                 !.compressor = NewCompressor(zstd)]]
    ELSE LET accept == InsertHeader(upstream_request, ACCEPT_ENCODING,
                                    IF zstd THEN "zstd" ELSE "gzip")
         IN [req |-> IF HasHeader(accept, CRD_CONTENT_LENGTH)
                     THEN RemoveHeader(InsertHeader(accept, CONTENT_LENGTH,
                                                    accept[CRD_CONTENT_LENGTH]),
                                       TRANSFER_ENCODING)
                     ELSE accept,
             ctx |-> [ctx EXCEPT !.op = "Decompress",
                                 !.compressor = NewCompressor(zstd),
                                 !.decompressor = NewDecompressor(zstd)]]

\* Mutant: the decompressing branch does not record the operation.
Mut_upstream_request_filter_OpNotSet(zstd, upstream_request, ctx) ==
    IF ~HasHeader(upstream_request, CONTENT_ENCODING)
    THEN LET moved == IF HasHeader(upstream_request, CONTENT_LENGTH)
                      THEN InsertHeader(RemoveHeader(upstream_request, CONTENT_LENGTH),
                                        CRD_CONTENT_LENGTH,
                                        upstream_request[CONTENT_LENGTH])
                      ELSE upstream_request
             marked == InsertHeader(moved, CONTENT_ENCODING,
                                    IF zstd THEN "zstd" ELSE "gzip")
         IN [req |-> InsertHeader(marked, TRANSFER_ENCODING, "Chunked"),
             ctx |-> [ctx EXCEPT !.op = "Compress",
                                 !.compressor = NewCompressor(zstd)]]
    ELSE LET accept == InsertHeader(upstream_request, ACCEPT_ENCODING,
                                    IF zstd THEN "zstd" ELSE "gzip")
         IN [req |-> IF HasHeader(accept, CRD_CONTENT_LENGTH)
                     THEN RemoveHeader(InsertHeader(accept, CONTENT_LENGTH,
                                                    accept[CRD_CONTENT_LENGTH]),
                                       TRANSFER_ENCODING)
                     ELSE accept,
             ctx |-> [ctx EXCEPT !.decompressor = NewDecompressor(zstd)]]

\* upstream_request_filter: [req |-> the upstream request header afterwards,
\* ctx |-> the context afterwards].
upstream_request_filter(zstd, upstream_request, ctx) ==
    IF ~HasHeader(upstream_request, CONTENT_ENCODING)
    THEN LET moved == IF HasHeader(upstream_request, CONTENT_LENGTH)
                      THEN InsertHeader(RemoveHeader(upstream_request, CONTENT_LENGTH),
                                        CRD_CONTENT_LENGTH,
                                        upstream_request[CONTENT_LENGTH])
                      ELSE upstream_request
             marked == InsertHeader(moved, CONTENT_ENCODING,
                                    IF zstd THEN "zstd" ELSE "gzip")
         IN [req |-> InsertHeader(marked, TRANSFER_ENCODING, "Chunked"),
             ctx |-> [ctx EXCEPT !.op = "Compress",
                                 !.compressor = NewCompressor(zstd)]]
    ELSE LET accept == InsertHeader(upstream_request, ACCEPT_ENCODING,
                                    IF zstd THEN "zstd" ELSE "gzip")
         IN [req |-> IF HasHeader(accept, CRD_CONTENT_LENGTH)
                     THEN RemoveHeader(InsertHeader(accept, CONTENT_LENGTH,
                                                    accept[CRD_CONTENT_LENGTH]),
                                       TRANSFER_ENCODING)
                     ELSE accept,
             ctx |-> [ctx EXCEPT !.op = "Decompress",
                                 !.decompressor = NewDecompressor(zstd)]]

\* Mutant: a call that carries no body is not passed to the codec.
Mut_request_body_filter_SkipNone(ctx, b, end, emit) ==
    LET Decompressed(ctx1, b1, d) ==
            [ctx |-> [ctx1 EXCEPT !.decompressor = d.c],
             body |-> IF d.res = "ok" THEN SomeBody(d.out) ELSE b1,
             res |-> d.res]
        ThenDecompress(ctx1, b1) ==
            IF IsSome(ctx1.decompressor) /\ b1.some
            THEN Decompressed(ctx1, b1,
                              Decompreessor0Encode(ctx1.decompressor, b1.data, end))
            ELSE [ctx |-> ctx1, body |-> b1, res |-> "ok"]
        Compressed(c) ==
            IF c.res = "ok"
            THEN ThenDecompress([ctx EXCEPT !.compressor = c.c], SomeBody(c.out))
            ELSE [ctx |-> [ctx EXCEPT !.compressor = c.c], body |-> b, res |-> c.res]
    IN IF IsSome(ctx.compressor) /\ b.some
       THEN Compressed(Compreessor0Encode(ctx.compressor, b.data, end, emit))
       ELSE ThenDecompress(ctx, b)

\* Mutant: the codec is taken out of the context on the final call.
Mut_request_body_filter_DropAtEnd(ctx, b, end, emit) ==
    LET Decompressed(ctx1, b1, d) ==
            [ctx |-> [ctx1 EXCEPT !.decompressor = IF end THEN NoCodec ELSE d.c],
             body |-> IF d.res = "ok" THEN SomeBody(d.out) ELSE b1,
             res |-> d.res]
        ThenDecompress(ctx1, b1) ==
            IF IsSome(ctx1.decompressor)
            THEN Decompressed(ctx1, b1,
                              Decompreessor0Encode(ctx1.decompressor, b1.data, end))
            ELSE [ctx |-> ctx1, body |-> b1, res |-> "ok"]
        Compressed(c) ==
            IF c.res = "ok"
            THEN ThenDecompress([ctx EXCEPT !.compressor = IF end THEN NoCodec ELSE c.c],
                                SomeBody(c.out))
            ELSE [ctx |-> [ctx EXCEPT !.compressor = c.c], body |-> b, res |-> c.res]
    IN IF IsSome(ctx.compressor)
       THEN Compressed(Compreessor0Encode(ctx.compressor, b.data, end, emit))
       ELSE ThenDecompress(ctx, b)

\* Mutant: a decoding error is swallowed and the body replaced by nothing.
Mut_request_body_filter_SwallowError(ctx, b, end, emit) ==
    LET Decompressed(ctx1, b1, d) ==
            [ctx |-> [ctx1 EXCEPT !.decompressor = d.c],
             body |-> SomeBody(d.out),
             res |-> "ok"]
        ThenDecompress(ctx1, b1) ==
            IF IsSome(ctx1.decompressor)
            THEN Decompressed(ctx1, b1,
                              Decompreessor0Encode(ctx1.decompressor, b1.data, end))
            ELSE [ctx |-> ctx1, body |-> b1, res |-> "ok"]
        Compressed(c) ==
            IF c.res = "ok"
            THEN ThenDecompress([ctx EXCEPT !.compressor = c.c], SomeBody(c.out))
            ELSE [ctx |-> [ctx EXCEPT !.compressor = c.c], body |-> b, res |-> c.res]
    IN IF IsSome(ctx.compressor)
       THEN Compressed(Compreessor0Encode(ctx.compressor, b.data, end, emit))
       ELSE ThenDecompress(ctx, b)

\* request_body_filter: [ctx, body |-> the body afterwards, res |-> "ok",
\* "err" (the Err returned with ?) or "panic"].  A body of None is encoded
\* as the empty slice.
request_body_filter(ctx, b, end, emit) ==
    LET Decompressed(ctx1, b1, d) ==
            [ctx |-> [ctx1 EXCEPT !.decompressor = d.c],
             body |-> IF d.res = "ok" THEN SomeBody(d.out) ELSE b1,
             res |-> d.res]
        ThenDecompress(ctx1, b1) ==
            IF IsSome(ctx1.decompressor)
            THEN Decompressed(ctx1, b1,
                              Decompreessor0Encode(ctx1.decompressor, b1.data, end))
            ELSE [ctx |-> ctx1, body |-> b1, res |-> "ok"]
        Compressed(c) ==
            IF c.res = "ok"
            THEN ThenDecompress([ctx EXCEPT !.compressor = c.c], SomeBody(c.out))
            ELSE [ctx |-> [ctx EXCEPT !.compressor = c.c], body |-> b, res |-> c.res]
    IN IF IsSome(ctx.compressor)
       THEN Compressed(Compreessor0Encode(ctx.compressor, b.data, end, emit))
       ELSE ThenDecompress(ctx, b)

\* ------------------------------------------------------------- the state

VARIABLES
    \* a compressor feeding the matching decompressor (SpecPipe)
    fmt,        \* TRUE: the zstd pair, FALSE: the gzip pair
    body,       \* the byte sequence b
    rest,       \* the part of b not yet fed to the compressor
    comp,       \* the compressor
    cdone,      \* the compressor has had its end = true call
    wire,       \* compressed chunks not yet fed on: [data, end]
    cstream,    \* every chunk the compressor has returned, in order
    decomp,     \* the decompressor
    decoded,    \* concatenation of what the decompressor has returned
    dres,       \* result of the decompressor's last call
    ddone       \* the decompressor has had its end = true call

VARIABLES
    \* one codec driven by arbitrary encode calls (SpecCodec)
    kind,       \* stat() name: "gzip", "de-gzip", "zstd" or "de-zstd"
    codec,      \* the codec
    src,        \* the bytes the caller has to feed
    fedN,       \* how many bytes of src have been fed
    calls,      \* number of encode calls made
    sumOut,     \* total length of the buffers returned
    allOut,     \* concatenation of the buffers returned
    lastRes,    \* result of the last call: "none", "ok", "err", "panic"
    lastEnd,    \* the end flag of the last call
    lastInput,  \* the input slice of the last call
    lastOut,    \* the buffer the last call returned
    before,     \* the codec as it was before the last call
    ended       \* a call before the last one had end = true and returned Ok

VARIABLES
    \* one request through the proxy (Spec)
    proxy0,           \* Proxy0: [zstd]
    req,              \* the downstream request header, session.req_header()
    upstream_request, \* the upstream request header of the current attempt
    ctx,              \* ProxyCtx
    pc,               \* "new", "filtered", "streaming", "done", "failed"
    attempts,         \* upstream_request_filter calls so far
    todo,             \* body bytes the framework has still to deliver
    nbody,            \* request_body_filter calls so far
    delivered,        \* body bytes handed to request_body_filter so far
    forwarded,        \* body bytes request_body_filter has passed on
    lastBody,         \* the body as the last request_body_filter call left it
    lastIn            \* the body as the last request_body_filter call got it

VARIABLES
    \* several requests in flight in one proxy (SpecMulti)
    shared,     \* Proxy0, the one instance every request's callbacks get as &self
    sess        \* per request: [req, bytes, st, hist]: the downstream header,
                \* the body, the task's state and the callbacks made so far

proxyVars == <<proxy0, req, upstream_request, ctx, pc, attempts, todo, nbody,
               delivered, forwarded, lastBody, lastIn>>
pipeVars == <<fmt, body, rest, comp, cdone, wire, cstream, decomp, decoded, dres, ddone>>
codecVars == <<kind, codec, src, fedN, calls, sumOut, allOut, lastRes, lastEnd,
               lastInput, lastOut, before, ended>>

multiVars == <<shared, sess>>

vars == <<proxyVars, pipeVars, codecVars, multiVars>>

EmptyHeaders == [x \in {} |-> ""]

ProxyIdle ==
    /\ proxy0 = [zstd |-> TRUE] /\ req = EmptyHeaders /\ upstream_request = EmptyHeaders
    /\ ctx = new_ctx /\ pc = "new" /\ attempts = 0 /\ todo = <<>> /\ nbody = 0
    /\ delivered = <<>> /\ forwarded = <<>> /\ lastBody = NoBody /\ lastIn = NoBody

PipeIdle ==
    /\ fmt = FALSE /\ body = <<>> /\ rest = <<>> /\ comp = NoCodec /\ cdone = FALSE
    /\ wire = <<>> /\ cstream = <<>> /\ decomp = NoCodec /\ decoded = <<>>
    /\ dres = "ok" /\ ddone = FALSE

CodecIdle ==
    /\ kind = "gzip" /\ codec = NoCodec /\ src = <<>> /\ fedN = 0 /\ calls = 0
    /\ sumOut = 0 /\ allOut = <<>> /\ lastRes = "none" /\ lastEnd = FALSE
    /\ lastInput = <<>> /\ lastOut = <<>> /\ before = NoCodec /\ ended = FALSE

MultiIdle == shared = [zstd |-> TRUE] /\ sess = <<>>

\* ------------------------------------------------------ SpecPipe: actions

PipeInit ==
    /\ CodecIdle
    /\ ProxyIdle
    /\ MultiIdle
    /\ fmt \in BOOLEAN
    /\ body \in Bodies
    /\ rest = body
    /\ comp = NewCompressor(fmt)
    /\ cdone = FALSE
    /\ wire = <<>>
    /\ cstream = <<>>
    /\ decomp = NewDecompressor(fmt)
    /\ decoded = <<>>
    /\ dres = "ok"
    /\ ddone = FALSE

\* The next k bytes of b go through the compressor; end only on the call
\* that takes the last of b.
PipeCompress ==
    /\ ~cdone
    /\ Len(cstream) < MaxCalls
    /\ \E k \in 0..Len(rest), end \in BOOLEAN, emit \in BOOLEAN :
         /\ end => k = Len(rest)
         /\ \E r \in {Compreessor0Encode(comp, Take(rest, k), end, emit)} :
               /\ r.res = "ok"
               /\ comp' = r.c
               /\ rest' = Drop(rest, k)
               /\ cdone' = end
               /\ wire' = Append(wire, [data |-> r.out, end |-> end])
               /\ cstream' = Append(cstream, r.out)
    /\ UNCHANGED <<fmt, body, decomp, decoded, dres, ddone>>
    /\ UNCHANGED <<proxyVars, codecVars, multiVars>>

\* The oldest compressed chunk goes through the decompressor, with the end
\* flag it was produced under.
PipeDecompress ==
    /\ wire # <<>>
    /\ dres = "ok"
    /\ \E r \in {Decompreessor0Encode(decomp, Head(wire).data, Head(wire).end)} :
          /\ decomp' = r.c
          /\ decoded' = decoded \o r.out
          /\ dres' = r.res
    /\ ddone' = Head(wire).end
    /\ wire' = Tail(wire)
    /\ UNCHANGED <<fmt, body, rest, comp, cdone, cstream>>
    /\ UNCHANGED <<proxyVars, codecVars, multiVars>>

PipeNext == PipeCompress \/ PipeDecompress

SpecPipe == PipeInit /\ [][PipeNext]_vars

\* ----------------------------------------------------- SpecCodec: actions

CompressOneShot(z, b, emit) == Compreessor0Encode(NewCompressor(z), b, TRUE, emit)
DecodeOneShot(z, s) == Decompreessor0Encode(NewDecompressor(z), s, TRUE)

\* What a decompressor is fed: complete streams of either format, their
\* truncations, streams with one byte changed, streams with a byte appended.
DecBodies == {b \in Bodies : Len(b) < MaxLen}
CompleteStreams == {CompressOneShot(z, b, e).out : z \in BOOLEAN, b \in DecBodies, e \in BOOLEAN}
Truncations(s) == {Take(s, n) : n \in 0..Len(s)}
Corruptions(s) == {[s EXCEPT ![i] = x] : i \in 1..Len(s), x \in {1, 255}}
DecoderInputs ==
    UNION {Truncations(s) \cup Corruptions(s) \cup {s \o <<0>>} : s \in CompleteStreams}

Kinds == {"gzip", "de-gzip", "zstd", "de-zstd"}
IsDecoder(k) == k \in {"de-gzip", "de-zstd"}

CodecNew(k) ==
    CASE k = "gzip" -> CompressorNew
      [] k = "de-gzip" -> DecompressorNew
      [] k = "zstd" -> ZstdCompressorNew
      [] k = "de-zstd" -> ZstdDecompressorNew

\* Encode::encode on whichever codec kind names.
CodecEncode(k, c, input, end, emit) ==
    CASE k = "gzip" -> CompressorEncode(c, input, end, emit)
      [] k = "de-gzip" -> DecompressorEncode(c, input, end)
      [] k = "zstd" -> ZstdCompressorEncode(c, input, end, emit)
      [] k = "de-zstd" -> ZstdDecompressorEncode(c, input, end)

CodecInit ==
    /\ PipeIdle
    /\ ProxyIdle
    /\ MultiIdle
    /\ kind \in Kinds
    /\ codec = CodecNew(kind)
    /\ src \in (IF IsDecoder(kind) THEN DecoderInputs ELSE Bodies)
    /\ fedN = 0
    /\ calls = 0
    /\ sumOut = 0
    /\ allOut = <<>>
    /\ lastRes = "none"
    /\ lastEnd = FALSE
    /\ lastInput = <<>>
    /\ lastOut = <<>>
    /\ before = codec
    /\ ended = FALSE

\* One encode call with the next k bytes of src and any end flag.  A panic
\* unwinds the caller and an Err ends the request (request_body_filter
\* returns it with ?), so no call follows either.
CodecCall ==
    /\ lastRes \in {"none", "ok"}
    /\ calls < MaxCalls
    /\ \E k \in 0..(Len(src) - fedN), end \in BOOLEAN, emit \in BOOLEAN :
         /\ IsDecoder(kind) => ~emit
         /\ \E r \in {CodecEncode(kind, codec, SubSeq(src, fedN + 1, fedN + k), end, emit)} :
               /\ codec' = r.c
               /\ fedN' = fedN + k
               /\ sumOut' = sumOut + Len(r.out)
               /\ allOut' = allOut \o r.out
               /\ lastRes' = r.res
               /\ lastEnd' = end
               /\ lastInput' = SubSeq(src, fedN + 1, fedN + k)
               /\ lastOut' = r.out
    /\ before' = codec
    /\ ended' = (ended \/ (lastEnd /\ lastRes = "ok"))
    /\ calls' = calls + 1
    /\ UNCHANGED <<kind, src>>
    /\ UNCHANGED <<proxyVars, pipeVars, multiVars>>

CodecNext == CodecCall

SpecCodec == CodecInit /\ [][CodecNext]_vars

\* ---------------------------------------------------------- Spec: actions

\* The requests that arrive: with or without each of the four headers
\* the filter reads; a request that names an encoding carries a body
\* compressed in it (by the paired instance), any other a plain body.
WithHeader(h, n, v) == IF v = "" THEN h ELSE InsertHeader(h, n, v)

ProxyInit ==
    /\ PipeIdle
    /\ CodecIdle
    /\ MultiIdle
    /\ proxy0 \in [zstd : BOOLEAN]
    /\ \E raw \in DecBodies, ce \in {"", "gzip", "zstd"}, cl \in BOOLEAN,
          crd \in {"", "1234"}, te \in {"", "chunked"} :
         /\ todo = IF ce = "" THEN raw ELSE CompressOneShot(ce = "zstd", raw, FALSE).out
         /\ req = WithHeader(WithHeader(WithHeader(WithHeader(EmptyHeaders,
                      CONTENT_ENCODING, ce),
                      CONTENT_LENGTH, IF cl THEN ToString(Len(todo)) ELSE ""),
                      CRD_CONTENT_LENGTH, crd),
                      TRANSFER_ENCODING, te)
    /\ upstream_request = EmptyHeaders
    /\ ctx = new_ctx
    /\ pc = "new"
    /\ attempts = 0
    /\ nbody = 0
    /\ delivered = <<>>
    /\ forwarded = <<>>
    /\ lastBody = NoBody
    /\ lastIn = NoBody

\* The framework calls upstream_request_filter once per upstream attempt,
\* each time on a fresh clone of the downstream request header and with the
\* request's one context, before any of the body is streamed.
ProxyUpstreamRequestFilter ==
    /\ pc \in {"new", "filtered"}
    /\ attempts < MaxAttempts
    /\ \E r \in {upstream_request_filter(proxy0.zstd, req, ctx)} :
          /\ upstream_request' = r.req
          /\ ctx' = r.ctx
    /\ pc' = "filtered"
    /\ attempts' = attempts + 1
    /\ UNCHANGED <<proxy0, req, todo, nbody, delivered, forwarded, lastBody, lastIn>>
    /\ UNCHANGED <<pipeVars, codecVars, multiVars>>

\* The framework hands the next k bytes of the body (or no body at all) to
\* request_body_filter, with end on the call that closes the body.
ProxyRequestBodyFilter ==
    /\ pc \in {"filtered", "streaming"}
    /\ nbody < MaxCalls
    /\ \E k \in 0..Len(todo), some \in BOOLEAN, end \in BOOLEAN, emit \in BOOLEAN :
         /\ k > 0 => some
         /\ end => k = Len(todo)
         /\ \E b \in {IF some THEN SomeBody(Take(todo, k)) ELSE NoBody} :
            \E r \in {request_body_filter(ctx, b, end, emit)} :
               /\ ctx' = r.ctx
               /\ lastIn' = b
               /\ lastBody' = r.body
               /\ forwarded' = IF r.res = "ok" THEN forwarded \o r.body.data ELSE forwarded
               /\ pc' = IF r.res # "ok" THEN "failed"
                        ELSE IF end THEN "done" ELSE "streaming"
               /\ delivered' = delivered \o Take(todo, k)
               /\ todo' = Drop(todo, k)
    /\ nbody' = nbody + 1
    /\ UNCHANGED <<proxy0, req, upstream_request, attempts>>
    /\ UNCHANGED <<pipeVars, codecVars, multiVars>>

Next == ProxyUpstreamRequestFilter \/ ProxyRequestBodyFilter

Init == ProxyInit

Spec == Init /\ [][Next]_vars

\* ----------------------------------------------------- SpecMulti: actions

\* The requests in flight together.
Requests == {1, 2}

\* What one request's task holds: the context new_ctx made for it, the
\* upstream request header, where it is, the body still to come and the
\* bodies request_body_filter has passed on.
NewSession(bytes) ==
    [ctx |-> new_ctx, upstream_request |-> EmptyHeaders, pc |-> "new",
     todo |-> bytes, out |-> <<>>]

\* One callback on one request: call.f is "header" (upstream_request_filter),
\* "body" (request_body_filter on call.k bytes, or on None) or "drop" (the
\* request is abandoned and its context dropped).
Callback(zstd, header, call, st) ==
    CASE call.f = "header" ->
           LET Filtered(r) ==
                   [st EXCEPT !.ctx = r.ctx, !.upstream_request = r.req,
                              !.pc = "filtered"]
           IN Filtered(upstream_request_filter(zstd, header, st.ctx))
      [] call.f = "body" ->
           LET Passed(r) ==
                   [st EXCEPT !.ctx = r.ctx,
                              !.pc = IF r.res # "ok" THEN "failed"
                                     ELSE IF call.end THEN "done" ELSE "streaming",
                              !.todo = Drop(@, call.k),
                              !.out = IF r.res = "ok" THEN Append(@, r.body) ELSE @]
           IN Passed(request_body_filter(
                         st.ctx,
                         IF call.some THEN SomeBody(Take(st.todo, call.k)) ELSE NoBody,
                         call.end, call.emit))
      [] call.f = "drop" -> [st EXCEPT !.ctx = new_ctx, !.pc = "dropped"]

\* Mutant: the context a callback leaves is stored for every request.
Mut_StoreSession_SharedCtx(all, i, st, call) ==
    [j \in DOMAIN all |->
        IF j = i
        THEN [all[i] EXCEPT !.st = st, !.hist = Append(@, call)]
        ELSE [all[j] EXCEPT !.st.ctx = st.ctx]]

\* The callback worked on the request's own context (ctx: &mut Self::CTX)
\* and header; nothing of another request is touched.
StoreSession(all, i, st, call) ==
    [all EXCEPT ![i] = [@ EXCEPT !.st = st, !.hist = Append(@, call)]]

\* The body of a request in SpecMulti: two bytes, compressed in the format
\* its content-encoding names.
MultiBody(ce) ==
    IF ce = "" THEN <<0, 1>> ELSE CompressOneShot(ce = "zstd", <<0, 1>>, FALSE).out

\* The chunks the framework hands over in SpecMulti: nothing, half of what
\* is left, or all of it.
MultiChunks(n) == {0, (n + 1) \div 2, n}

MultiInit ==
    /\ PipeIdle
    /\ CodecIdle
    /\ ProxyIdle
    /\ shared \in [zstd : BOOLEAN]
    /\ sess \in [Requests ->
                   {[req |-> WithHeader(EmptyHeaders, CONTENT_ENCODING, ce),
                     bytes |-> MultiBody(ce),
                     st |-> NewSession(MultiBody(ce)),
                     hist |-> <<>>] : ce \in {"", "gzip", "zstd"}}]

MultiUpstreamRequestFilter ==
    /\ \E i \in Requests :
          /\ sess[i].st.pc = "new"
          /\ \E call \in {[f |-> "header"]} :
                sess' = StoreSession(sess, i,
                                     Callback(shared.zstd, sess[i].req, call, sess[i].st),
                                     call)
    /\ UNCHANGED <<shared, proxyVars, pipeVars, codecVars>>

MultiRequestBodyFilter ==
    /\ \E i \in Requests :
          /\ sess[i].st.pc \in {"filtered", "streaming"}
          /\ Len(sess[i].hist) <= MultiCalls
          /\ \E k \in MultiChunks(Len(sess[i].st.todo)), some \in BOOLEAN,
                end \in BOOLEAN, emit \in BOOLEAN :
                /\ k > 0 => some
                /\ end => k = Len(sess[i].st.todo)
                /\ emit = IsSome(sess[i].st.ctx.compressor)
                /\ \E call \in {[f |-> "body", k |-> k, some |-> some, end |-> end,
                                  emit |-> emit]} :
                      sess' = StoreSession(sess, i,
                                           Callback(shared.zstd, sess[i].req, call,
                                                    sess[i].st),
                                           call)
    /\ UNCHANGED <<shared, proxyVars, pipeVars, codecVars>>

MultiDrop ==
    /\ \E i \in Requests :
          /\ sess[i].st.pc \in {"filtered", "streaming"}
          /\ \E call \in {[f |-> "drop"]} :
                sess' = StoreSession(sess, i,
                                     Callback(shared.zstd, sess[i].req, call, sess[i].st),
                                     call)
    /\ UNCHANGED <<shared, proxyVars, pipeVars, codecVars>>

MultiNext == MultiUpstreamRequestFilter \/ MultiRequestBodyFilter \/ MultiDrop

SpecMulti == MultiInit /\ [][MultiNext]_vars

\* The request processed alone: its callbacks, in the order they were made,
\* on a context of its own.
RECURSIVE Alone(_, _, _, _)
Alone(zstd, header, hist, st) ==
    IF hist = <<>> THEN st
    ELSE Alone(zstd, header, Tail(hist), Callback(zstd, header, Head(hist), st))

\* ---------------------------------------- the formats, as whole streams

\* The blocks at the front of s: st is "final" when a final block closes
\* them, "short" when s ends first, "bad" at a byte that opens no block;
\* data is the content of the complete blocks.
RECURSIVE RefBlocks(_, _)
RefBlocks(s, data) ==
    IF s = <<>> THEN [st |-> "short", data |-> data, rest |-> <<>>]
    ELSE IF ~IsBlockHdr(s[1]) THEN [st |-> "bad", data |-> data, rest |-> s]
    ELSE LET n == BlockLen(s[1])
         IN IF Len(s) - 1 < n THEN [st |-> "short", data |-> data, rest |-> <<>>]
            ELSE IF BlockFinal(s[1])
            THEN [st |-> "final", data |-> data \o SubSeq(s, 2, n + 1), rest |-> Drop(s, n + 1)]
            ELSE RefBlocks(Drop(s, n + 1), data \o SubSeq(s, 2, n + 1))

\* A gzip member: header, blocks, footer of the blocks' content.
GzipData(s) == RefBlocks(Drop(s, Len(GzHeader)), <<>>).data
IsGzipStream(s) ==
    /\ Len(s) >= Len(GzHeader)
    /\ Take(s, Len(GzHeader)) = GzHeader
    /\ LET p == RefBlocks(Drop(s, Len(GzHeader)), <<>>)
       IN p.st = "final" /\ p.rest = Trailer(CrcUpdate(0, p.data), Len(p.data))

\* zstd: any number of frames, each the magic number and blocks.
RECURSIVE RefZstd(_, _)
RefZstd(s, data) ==
    IF s = <<>> THEN [valid |-> TRUE, data |-> data]
    ELSE IF Len(s) < Len(ZstdMagic) \/ Take(s, Len(ZstdMagic)) # ZstdMagic
    THEN [valid |-> FALSE, data |-> data]
    ELSE LET p == RefBlocks(Drop(s, Len(ZstdMagic)), data)
         IN IF p.st = "final" THEN RefZstd(p.rest, p.data)
            ELSE [valid |-> FALSE, data |-> p.data]

ZstdData(s) == RefZstd(s, <<>>).data
IsZstdStream(s) == RefZstd(s, <<>>).valid

IsStream(z, s) == IF z THEN IsZstdStream(s) ELSE IsGzipStream(s)
StreamData(z, s) == IF z THEN ZstdData(s) ELSE GzipData(s)

\* The bytes fed to the codec of SpecCodec so far.
Fed == Take(src, fedN)

\* get_ref(): the Vec<u8> behind the codec of SpecCodec, and the library's
\* intermediate buffer in front of it.
CodecVec == IF IsDecoder(kind) THEN codec.decompress.vec ELSE codec.compress.vec
CodecBuf == IF IsDecoder(kind) THEN codec.decompress.buf ELSE codec.compress.buf

\* ---------------------------------------------------------------- claims

\* C1: round trip.  Feeding the chunks of b to a compressor (end only on
\* the last) and the chunks it returns, in order and with the same end
\* flag, to the matching decompressor never fails, and once the
\* decompressor has had its final chunk the concatenation of what it
\* returned is b; for the gzip pair and for the zstd pair.
C1_RoundTrip ==
    /\ dres = "ok"
    /\ ddone => decoded = body

\* C1 witness: a body of two or more bytes has gone through both codecs in
\* two or more chunks, some of them not final and not empty.
C1_Witness ==
    /\ ddone
    /\ Len(body) >= 2
    /\ Len(cstream) >= 2
    /\ Len(cstream[1]) > 0
    /\ decoded = body

\* C2: chunking invariance.  However b was split on the compressing side,
\* the compressed stream taken as a whole decompresses to b, and so does
\* the stream produced by compressing b as one final chunk.
C2_ChunkingInvariance ==
    cdone =>
        /\ DecodeOneShot(fmt, Concat(cstream)).res = "ok"
        /\ DecodeOneShot(fmt, Concat(cstream)).out = body
        /\ \A e \in BOOLEAN :
              /\ DecodeOneShot(fmt, CompressOneShot(fmt, body, e).out).res = "ok"
              /\ DecodeOneShot(fmt, CompressOneShot(fmt, body, e).out).out = body

\* C2 witness: a body compressed in several chunks to bytes that differ
\* from its one-chunk compression, both decompressing to the body.
C2_Witness ==
    /\ cdone
    /\ Len(cstream) >= 2
    /\ Concat(cstream) # CompressOneShot(fmt, body, FALSE).out
    /\ DecodeOneShot(fmt, Concat(cstream)).out = body
    /\ DecodeOneShot(fmt, CompressOneShot(fmt, body, FALSE).out).out = body
    /\ body # <<>>

\* C3: counter accounting.  After any sequence of encode calls on any of
\* the four codecs, total_in is the number of bytes fed and total_out the
\* total length of the buffers returned, and no call lowers either.
C3_CounterAccounting ==
    /\ [](codec.total_in = fedN /\ codec.total_out = sumOut)
    /\ [][codec'.total_in >= codec.total_in /\ codec'.total_out >= codec.total_out]_vars

\* C3 witness: a gzip decompressor after two or more calls that took input
\* and returned output.
C3_Witness ==
    /\ kind = "de-gzip"
    /\ calls >= 2
    /\ fedN > 0
    /\ sumOut > 0
    /\ codec.total_in = fedN
    /\ codec.total_out = sumOut

\* C9: final flush.  After an encode call with end = true that returned
\* Ok, nothing is left in the codec's buffers; a compressor has returned
\* a complete stream of everything it was fed, a decompressor everything
\* that the input it was fed decodes to.
C9_FinalFlush ==
    (lastEnd /\ lastRes = "ok") =>
        IF IsDecoder(kind)
        THEN /\ codec.decompress.buf = <<>>
             /\ codec.decompress.vec = <<>>
             /\ allOut = StreamData(kind = "de-zstd", Fed)
        ELSE /\ codec.compress.buf = <<>>
             /\ codec.compress.vec = <<>>
             /\ codec.compress.pend = <<>>
             /\ IsStream(kind = "zstd", allOut)
             /\ StreamData(kind = "zstd", allOut) = Fed

\* C9 witness: a zstd decompressor whose final call returned bytes that an
\* earlier call had decoded but not yet returned.
C9_Witness ==
    /\ kind = "de-zstd"
    /\ lastEnd /\ lastRes = "ok"
    /\ calls >= 2
    /\ allOut # <<>>
    /\ IsZstdStream(Fed)
    /\ allOut = ZstdData(Fed)

\* C10: a decompressor's encode call with end = true on input that is not
\* a complete stream of its format (not valid, or truncated) returns an
\* error; it neither panics nor returns Ok.
C10_DecodeErrorOnInvalid ==
    (IsDecoder(kind) /\ lastEnd /\ ~IsStream(kind = "de-zstd", Fed)) => lastRes = "err"

\* C10, the gzip decompressor alone.
C10_GzipDecodeErrorOnInvalid ==
    (kind = "de-gzip" /\ lastEnd /\ ~IsGzipStream(Fed)) => lastRes = "err"

\* C11: no partial application on error.  When an encode call returns an
\* error, total_in and total_out are what they were before the call.
C11_NoPartialApplication ==
    lastRes = "err" =>
        /\ codec.total_in = before.total_in
        /\ codec.total_out = before.total_out

\* C11, total_out alone: a failed call leaves it as it was.
C11_FailedCallKeepsTotalOut ==
    lastRes = "err" => codec.total_out = before.total_out

\* C12: misuse detection.  For every codec, an encode call made after an
\* earlier call with end = true has completed fails (a panic or an error);
\* it is never accepted.
C12_MisuseFailsLoudly ==
    ended => lastRes \in {"err", "panic"}

\* C12, the compressors given further bytes: the call panics.
C12_CompressorMisusePanics ==
    (ended /\ ~IsDecoder(kind) /\ lastInput # <<>>) => lastRes = "panic"

\* C13: an empty non-final chunk is a no-op.  An encode call with an empty
\* input and end = false, before any call with end = true (the first call
\* too), returns Ok with an empty buffer and leaves the codec as it was:
\* counters unchanged, nothing flushed, nothing finished.
C13_EmptyChunkNoOp ==
    (calls > 0 /\ lastInput = <<>> /\ ~lastEnd /\ ~ended) =>
        /\ lastRes = "ok"
        /\ lastOut = <<>>
        /\ codec = before

\* C13 witness: a gzip compressor that holds emitted bytes not yet returned
\* has had an empty non-final call, and still holds them.
C13_Witness ==
    /\ kind = "gzip"
    /\ calls >= 2
    /\ lastInput = <<>> /\ ~lastEnd /\ ~ended
    /\ lastRes = "ok"
    /\ lastOut = <<>>
    /\ codec.compress.buf # <<>>
    /\ codec = before

\* C16 (as the code has it): after every successful encode call, final or
\* not, the codec's Vec<u8> is empty; after a successful final call the
\* library's intermediate buffer is empty too.
C16_VecDrained ==
    (calls > 0 /\ lastRes = "ok") =>
        /\ CodecVec = <<>>
        /\ lastEnd => CodecBuf = <<>>

\* C16 witness: a non-final call on a gzip compressor returned bytes and
\* left the Vec<u8> empty.
C16_Witness ==
    /\ kind = "gzip"
    /\ lastRes = "ok" /\ ~lastEnd
    /\ lastInput # <<>>
    /\ lastOut # <<>>
    /\ CodecVec = <<>>

\* C16: drained buffer invariant.  After every successful encode call,
\* final or not, nothing the algorithm emitted is left in the codec: every
\* byte emitted during the call is in the returned buffer.
C16_DrainedBuffer ==
    (calls > 0 /\ lastRes = "ok") =>
        /\ CodecVec = <<>>
        /\ CodecBuf = <<>>

\* transfer-coding names are case-insensitive: the code writes "Chunked".
IsChunked(v) == v \in {"chunked", "Chunked"}

ConfiguredFormat == IF proxy0.zstd THEN "zstd" ELSE "gzip"

\* C4: compress-side header rewrite.  A request that reached
\* upstream_request_filter without content-encoding leaves it with
\* content-encoding set to the configured format, transfer-encoding
\* chunked, no content-length and, if it had a content-length, that value
\* in the side-channel length header.
C4_CompressHeaderRewrite ==
    (pc # "new" /\ ~HasHeader(req, CONTENT_ENCODING)) =>
        /\ HasHeader(upstream_request, CONTENT_ENCODING)
        /\ upstream_request[CONTENT_ENCODING] = ConfiguredFormat
        /\ HasHeader(upstream_request, TRANSFER_ENCODING)
        /\ IsChunked(upstream_request[TRANSFER_ENCODING])
        /\ ~HasHeader(upstream_request, CONTENT_LENGTH)
        /\ HasHeader(req, CONTENT_LENGTH) =>
              /\ HasHeader(upstream_request, CRD_CONTENT_LENGTH)
              /\ upstream_request[CRD_CONTENT_LENGTH] = req[CONTENT_LENGTH]

\* C4 witness: a request with a content-length and no content-encoding has
\* been through the filter and carries its length in the side channel.
C4_Witness ==
    /\ pc = "filtered"
    /\ ~HasHeader(req, CONTENT_ENCODING)
    /\ HasHeader(req, CONTENT_LENGTH)
    /\ HasHeader(upstream_request, CRD_CONTENT_LENGTH)
    /\ upstream_request[CRD_CONTENT_LENGTH] = req[CONTENT_LENGTH]
    /\ ~HasHeader(upstream_request, CONTENT_LENGTH)

\* C5: decompress-side header rewrite.  A request that reached
\* upstream_request_filter with content-encoding and the side-channel
\* length header of value v leaves it with content-length v and without
\* transfer-encoding; without the side-channel header, content-length and
\* transfer-encoding are as they were.
C5_DecompressHeaderRewrite ==
    (pc # "new" /\ HasHeader(req, CONTENT_ENCODING)) =>
        IF HasHeader(req, CRD_CONTENT_LENGTH)
        THEN /\ HasHeader(upstream_request, CONTENT_LENGTH)
             /\ upstream_request[CONTENT_LENGTH] = req[CRD_CONTENT_LENGTH]
             /\ ~HasHeader(upstream_request, TRANSFER_ENCODING)
        ELSE \A n \in {CONTENT_LENGTH, TRANSFER_ENCODING} :
                /\ HasHeader(upstream_request, n) <=> HasHeader(req, n)
                /\ HasHeader(req, n) => upstream_request[n] = req[n]

\* C5 witness: a chunked request with content-encoding and side-channel
\* length "1234" has been through the filter.
C5_Witness ==
    /\ pc = "filtered"
    /\ HasHeader(req, CONTENT_ENCODING)
    /\ HasHeader(req, CRD_CONTENT_LENGTH)
    /\ req[CRD_CONTENT_LENGTH] = "1234"
    /\ HasHeader(req, TRANSFER_ENCODING)
    /\ HasHeader(upstream_request, CONTENT_LENGTH)
    /\ upstream_request[CONTENT_LENGTH] = "1234"
    /\ ~HasHeader(upstream_request, TRANSFER_ENCODING)

\* C6: side-channel headers do not leak.  Once upstream_request_filter has
\* taken the Decompress branch, the request that goes on to the origin
\* carries neither the side-channel length header nor content-encoding.
C6_NoSideChannelLeak ==
    (pc # "new" /\ ctx.op = "Decompress") =>
        /\ ~HasHeader(upstream_request, CRD_CONTENT_LENGTH)
        /\ ~HasHeader(upstream_request, CONTENT_ENCODING)

\* C6, the side-channel length header alone.
C6_NoLengthLeak ==
    (pc # "new" /\ ctx.op = "Decompress") =>
        ~HasHeader(upstream_request, CRD_CONTENT_LENGTH)

\* C7: body-filter dispatch.  While the body streams, the codec that
\* ctx.op names has been fed exactly the bytes delivered, once and in
\* order, every call (one without body bytes too) left the codec's result
\* as the body, and the bytes passed on are the codec's whole output: at
\* the end a complete stream of the delivered bytes (Compress) or what the
\* delivered stream decodes to (Decompress).  A context with no codec
\* leaves every body as it is.
C7_BodyFilterDispatch ==
    /\ pc \in {"streaming", "done"} =>
          /\ lastBody.some
          /\ ctx.op = "Compress" =>
                /\ ctx.compressor.c.total_in = Len(delivered)
                /\ ctx.compressor.c.total_out = Len(forwarded)
                /\ pc = "done" =>
                      /\ IsStream(ctx.compressor.tag = "Zstd", forwarded)
                      /\ StreamData(ctx.compressor.tag = "Zstd", forwarded) = delivered
          /\ ctx.op = "Decompress" =>
                /\ ctx.decompressor.c.total_in = Len(delivered)
                /\ ctx.decompressor.c.total_out = Len(forwarded)
                /\ pc = "done" =>
                      forwarded = StreamData(ctx.decompressor.tag = "Zstd", delivered)
    /\ \A b \in {NoBody} \cup {SomeBody(x) : x \in DecBodies}, e \in BOOLEAN :
          request_body_filter(new_ctx, b, e, FALSE) = [ctx |-> new_ctx, body |-> b, res |-> "ok"]

\* C7 witness: a compressed body of two or more bytes, closed by a call
\* that carried no body and was answered with the end of the stream.
C7_Witness ==
    /\ pc = "done"
    /\ ctx.op = "Compress"
    /\ nbody >= 2
    /\ Len(delivered) >= 2
    /\ ~lastIn.some
    /\ lastBody.some /\ lastBody.data # <<>>
    /\ StreamData(ctx.compressor.tag = "Zstd", forwarded) = delivered

\* C8: at most one of ctx.compressor and ctx.decompressor is populated,
\* after any calls of upstream_request_filter (repeated too) and
\* request_body_filter.
C8_AtMostOneCodec == ~(IsSome(ctx.compressor) /\ IsSome(ctx.decompressor))

\* C8 witness: a second upstream_request_filter call has been made and the
\* body streams through the one codec it left.
C8_Witness ==
    /\ attempts >= 2
    /\ pc = "streaming"
    /\ IsSome(ctx.decompressor)
    /\ ~IsSome(ctx.compressor)

C15_FormatMatching ==
    (pc # "new" /\ HasHeader(req, CONTENT_ENCODING)) =>
        ctx.decompressor.tag = (IF req[CONTENT_ENCODING] = "zstd" THEN "Zstd" ELSE "Gzip")

\* C15, what the code does: the decompressor is of the configured format.
C15_ConfiguredFormatDecompressor ==
    (pc # "new" /\ HasHeader(req, CONTENT_ENCODING)) =>
        ctx.decompressor.tag = (IF proxy0.zstd THEN "Zstd" ELSE "Gzip")

\* C17: the decision is made once and is terminal.  ctx.op leaves None in
\* an upstream_request_filter call made before any request_body_filter
\* call, no call changes it afterwards, and no request_body_filter call
\* changes ctx.op, which codec is populated, or the request headers.
C17_DecisionOnceTerminal ==
    /\ [](nbody > 0 => ctx.op # "None")
    /\ [][(ctx.op = "None" /\ ctx'.op # "None") =>
              (attempts' = attempts + 1 /\ nbody = 0)]_vars
    /\ [][ctx.op # "None" => ctx'.op = ctx.op]_vars
    /\ [][nbody' # nbody =>
              /\ ctx'.op = ctx.op
              /\ ctx'.compressor.tag = ctx.compressor.tag
              /\ ctx'.decompressor.tag = ctx.decompressor.tag
              /\ upstream_request' = upstream_request
              /\ req' = req]_vars

\* C17 witness: a request whose filter ran twice, then streamed its whole
\* body through the compressor in two or more calls.
C17_Witness ==
    /\ pc = "done"
    /\ attempts = MaxAttempts
    /\ nbody >= 2
    /\ ctx.op = "Compress"
    /\ IsSome(ctx.compressor)
    /\ delivered # <<>>

\* The decompressor, given everything delivered so far, reports an error.
DecodeFails ==
    Decompreessor0Encode(NewDecompressor(proxy0.zstd), delivered, FALSE).res = "err"

\* C18: a decode failure is terminal for the request.  When the
\* decompressor fails inside request_body_filter the filter returns the
\* error and leaves the body as it got it, nothing more is passed on, and
\* no later call is made for the request; a decompressor that cannot decode
\* what was delivered always ends the request this way.
C18_DecodeFailureTerminal ==
    /\ [](pc = "failed" =>
             /\ ctx.op = "Decompress"
             /\ lastBody = lastIn
             /\ Len(forwarded) = ctx.decompressor.c.total_out)
    /\ []((ctx.op = "Decompress" /\ nbody > 0 /\ DecodeFails) => pc = "failed")
    /\ [][pc # "failed"]_vars

\* C18 witness: the decompressor failed on the second or a later call, on a
\* call that carried body bytes.
C18_Witness ==
    /\ pc = "failed"
    /\ ctx.op = "Decompress"
    /\ nbody >= 2
    /\ lastIn.some /\ lastIn.data # <<>>
    /\ lastBody = lastIn
    /\ DecodeFails

\* C19: operation/codec agreement.  In every context ctx.op is Compress
\* exactly when the compressor is populated, Decompress exactly when the
\* decompressor is, and None exactly when neither is.
C19_OpCodecAgreement ==
    /\ ctx.op = "Compress" <=> IsSome(ctx.compressor)
    /\ ctx.op = "Decompress" <=> IsSome(ctx.decompressor)
    /\ ctx.op = "None" <=> (~IsSome(ctx.compressor) /\ ~IsSome(ctx.decompressor))

\* C19 witness: a Decompress context whose decompressor has decoded a whole
\* body.
C19_Witness ==
    /\ pc = "done"
    /\ ctx.op = "Decompress"
    /\ IsSome(ctx.decompressor)
    /\ ~IsSome(ctx.compressor)
    /\ forwarded # <<>>

\* The request as the paired instance's upstream_request_filter leaves it.
PairedRequest == upstream_request_filter(proxy0.zstd, upstream_request, new_ctx).req

\* C20: side-channel integrity.  After the compress-side rewrite the
\* side-channel length header is present exactly when the request had a
\* content-length, and carries that value; the content-length the paired
\* decompress-side rewrite restores is the request's own.
C20_SideChannelIntegrity ==
    (pc # "new" /\ ~HasHeader(req, CONTENT_ENCODING)) =>
        /\ HasHeader(upstream_request, CRD_CONTENT_LENGTH) <=> HasHeader(req, CONTENT_LENGTH)
        /\ HasHeader(upstream_request, CRD_CONTENT_LENGTH) =>
              upstream_request[CRD_CONTENT_LENGTH] = req[CONTENT_LENGTH]
        /\ HasHeader(PairedRequest, CONTENT_LENGTH) <=> HasHeader(req, CONTENT_LENGTH)
        /\ HasHeader(PairedRequest, CONTENT_LENGTH) =>
              PairedRequest[CONTENT_LENGTH] = req[CONTENT_LENGTH]

\* C20, a request that has a content-length: the side channel carries it
\* and the paired instance restores it.
C20_LengthCarried ==
    (pc # "new" /\ ~HasHeader(req, CONTENT_ENCODING) /\ HasHeader(req, CONTENT_LENGTH)) =>
        /\ HasHeader(upstream_request, CRD_CONTENT_LENGTH)
        /\ upstream_request[CRD_CONTENT_LENGTH] = req[CONTENT_LENGTH]
        /\ HasHeader(PairedRequest, CONTENT_LENGTH)
        /\ PairedRequest[CONTENT_LENGTH] = req[CONTENT_LENGTH]

====
